---- MODULE Spec2Model ----
(***************************************************************************)
(* The schema grammar of src/src/schema/grammar.rs as a state machine.     *)
(*                                                                         *)
(* parse_schema runs many1(definition) followed by eof over a token        *)
(* stream.  The state is the token stream, the cursor into it, the         *)
(* definitions collected so far, the alternative of `definition` that is   *)
(* tried next, and the final Result.  Every grammar rule is an operator    *)
(* from a cursor to a parse result                                         *)
(*      [ok, pos, val, err]                                                *)
(* where pos is the cursor the rule stopped at.  A rule "consumed" iff     *)
(* pos differs from the cursor it started at: this is the library's        *)
(* Consumed/Empty distinction, which decides whether `choice`, `optional`  *)
(* and `many` may go on after a failure.                                   *)
(*                                                                         *)
(* A position is the ordinal of a token in the stream: position() at       *)
(* cursor i is i, the position of the next token to be read.               *)
(***************************************************************************)
EXTENDS Integers, Sequences, FiniteSets, TLC

VARIABLES src, tokens, cursor, pc, definitions, starts, result, error

vars == <<src, tokens, cursor, pc, definitions, starts, result, error>>

\* ------------------------------------------------------------ bounds
MaxOps == 3
MaxDirs == 1
MaxFields == 2
MaxDefs == 3

\* ------------------------------------------------------------ tokens
NameTok(v) == [kind |-> "Name", value |-> v]
PunctTok(v) == [kind |-> "Punctuator", value |-> v]
StringTok(v) == [kind |-> "StringValue", value |-> v]

EndOfInput == [kind |-> "EndOfInput", value |-> ""]

\* The token at cursor i: what the stream's uncons would give.
At(i) == IF i >= 1 /\ i <= Len(tokens) THEN tokens[i] ELSE EndOfInput

\* ------------------------------------------------------------ results
None == <<>>
Some(x) == <<x>>

Ok(v, p) == [ok |-> TRUE, pos |-> p, val |-> v, err |-> None]
Err(p, e) == [ok |-> FALSE, pos |-> p, val |-> None, err |-> e]

UnexpectedToken(t) == [tag |-> "Unexpected", info |-> "Token", kind |-> t.kind, value |-> t.value]
UnexpectedMessage(m) == [tag |-> "Unexpected", info |-> "Message", kind |-> "", value |-> m]
ExpectedMessage(m) == [tag |-> "Expected", info |-> "Message", kind |-> "", value |-> m]

\* Errors::empty(position)
ErrorsEmpty(p) == [position |-> p, errors |-> <<>>]

\* Errors::add_error: an entry equal to one already held is not added again.
add_error(e, x) ==
    IF \E k \in 1..Len(e.errors) : e.errors[k] = x
    THEN e
    ELSE [e EXCEPT !.errors = Append(@, x)]

\* The failure of a token matcher at cursor i: nothing is consumed.
Mismatch(i) == Err(i, add_error(ErrorsEmpty(i), UnexpectedToken(At(i))))

\* ------------------------------------------------------------ combinators
\* A parser's result is bound once and then inspected, as a Rust value is:
\* Once(v, F) is F applied to the value of v.
Once(v, F(_)) == CHOOSE y \in {F(x) : x \in {v}} : TRUE

\* A tuple of parsers: Start is the empty tuple, AndThen runs one more parser
\* where the tuple so far stopped and appends its value.
Start(i) == Ok(<<>>, i)

Push(r, q) == Once(q, LAMBDA y : IF y.ok THEN Ok(Append(r.val, y.val), y.pos) ELSE y)

AndThen(r, P(_)) == Once(r, LAMBDA x : IF ~x.ok THEN x ELSE Push(x, P(x.pos)))

\* a.with(b): b's value; a.skip(b): a's value.
With(r, P(_)) == Once(r, LAMBDA x : IF ~x.ok THEN x ELSE P(x.pos))

Keep(r, q) == Once(q, LAMBDA y : IF y.ok THEN Ok(r.val, y.pos) ELSE y)

Skip(r, P(_)) == Once(r, LAMBDA x : IF ~x.ok THEN x ELSE Keep(x, P(x.pos)))

\* optional(p): None when p failed without consuming; p's failure otherwise.
OptionalResult(r, i) ==
    IF r.ok THEN Ok(Some(r.val), r.pos)
    ELSE IF r.pos = i THEN Ok(None, i)
    ELSE r

optional(P(_), i) == Once(P(i), LAMBDA x : OptionalResult(x, i))

\* choice: the next alternative is tried only when the one before failed
\* without consuming.
Or(r, i, Q(_)) == Once(r, LAMBDA x : IF x.ok \/ x.pos # i THEN x ELSE Q(i))

Map(r, F(_)) == Once(r, LAMBDA x : IF x.ok THEN Ok(F(x.val), x.pos) ELSE x)

\* flat_map: the closure's error is returned at the cursor the parser reached.
FlatMapResult(f, endpos) ==
    Once(f, LAMBDA y : IF y.ok THEN Ok(y.val, endpos) ELSE Err(endpos, y.err))

FlatMap(r, F(_)) == Once(r, LAMBDA x : IF x.ok THEN FlatMapResult(F(x.val), x.pos) ELSE x)

unwrap_or_else_new(opt) == IF opt = None THEN <<>> ELSE opt[1]

\* ------------------------------------------------------------ helpers
position(i) == Ok(i, i)

ident(s, i) ==
    IF At(i).kind = "Name" /\ At(i).value = s THEN Ok(At(i).value, i + 1) ELSE Mismatch(i)

punct(s, i) ==
    IF At(i).kind = "Punctuator" /\ At(i).value = s THEN Ok(At(i).value, i + 1) ELSE Mismatch(i)

kind(k, i) ==
    IF At(i).kind = k THEN Ok(At(i), i + 1) ELSE Mismatch(i)

name(i) ==
    IF At(i).kind = "Name" THEN Ok(At(i).value, i + 1) ELSE Mismatch(i)

string(i) ==
    IF At(i).kind = "StringValue" THEN Ok(At(i).value, i + 1) ELSE Mismatch(i)

\* ------------------------------------------------------------ common
\* default_value: one literal token (a name, i.e. an enum value, boolean or
\* null, or a string).
default_value(i) ==
    IF At(i).kind \in {"Name", "StringValue"} THEN Ok(At(i), i + 1) ELSE Mismatch(i)

NamedType(n) == [type |-> "NamedType", of |-> n]
ListType(t) == [type |-> "ListType", of |-> t]
NonNullType(t) == [type |-> "NonNullType", of |-> t]

NonNullSuffix(r) ==
    Once(r, LAMBDA x :
        IF x.ok /\ punct("!", x.pos).ok THEN Ok(NonNullType(x.val), x.pos + 1) ELSE x)

RECURSIVE parse_type(_)
parse_type(i) ==
    NonNullSuffix(
        Or(Map(name(i), NamedType), i,
           LAMBDA j : Map(Skip(With(punct("[", j), parse_type), LAMBDA k : punct("]", k)),
                          ListType)))

\* A directive: position, "@" name.  Directive arguments are not part of the
\* token alphabet of the inputs and are left out.
directive(i) ==
    Map(AndThen(AndThen(Start(i), position), LAMBDA j : With(punct("@", j), name)),
        LAMBDA v : [position |-> v[1], name |-> v[2], arguments |-> <<>>])

RECURSIVE many_directive(_, _)
many_directive_next(r, i, acc) ==
    Once(r, LAMBDA x :
        IF x.ok THEN many_directive(x.pos, Append(acc, x.val))
        ELSE IF x.pos = i THEN Ok(acc, i)
        ELSE x)

many_directive(i, acc) == many_directive_next(directive(i), i, acc)

directives(i) == many_directive(i, <<>>)

\* ------------------------------------------------------------ schema
\* (kind(T::Name).skip(punct(":")), name())
operation(i) ==
    AndThen(AndThen(Start(i), LAMBDA j : Skip(kind("Name", j), LAMBDA k : punct(":", k))),
            name)

RECURSIVE many_operation(_, _)
many_operation_next(r, i, acc) ==
    Once(r, LAMBDA x :
        IF x.ok THEN many_operation(x.pos, Append(acc, x.val))
        ELSE IF x.pos = i THEN Ok(acc, i)
        ELSE x)

many_operation(i, acc) == many_operation_next(operation(i), i, acc)

\* The loop's turn with the mutation arm writing the query slot.
schema_operation_wrong_slot(st, oper, type_name) ==
    IF oper.value = "query" /\ st.query # None
    THEN [st EXCEPT !.err = add_error(@, UnexpectedMessage("duplicate query operation"))]
    ELSE IF oper.value = "query"
    THEN [st EXCEPT !.query = Some(type_name)]
    ELSE IF oper.value = "mutation" /\ st.mutation # None
    THEN [st EXCEPT !.err = add_error(@, UnexpectedMessage("duplicate mutation operation"))]
    ELSE IF oper.value = "mutation"
    THEN [st EXCEPT !.query = Some(type_name)]
    ELSE IF oper.value = "subscription" /\ st.subscription # None
    THEN [st EXCEPT !.err = add_error(@, UnexpectedMessage("duplicate subscription operation"))]
    ELSE IF oper.value = "subscription"
    THEN [st EXCEPT !.subscription = Some(type_name)]
    ELSE [st EXCEPT !.err =
            add_error(add_error(add_error(add_error(@,
                UnexpectedToken(oper)),
                ExpectedMessage("query")),
                ExpectedMessage("mutation")),
                ExpectedMessage("subscription"))]

\* One turn of the loop over the operations: the match on oper.value.
\* (The messages are the source's without the quotes around the kind.)
schema_operation(st, oper, type_name) ==
    IF oper.value = "query" /\ st.query # None
    THEN [st EXCEPT !.err = add_error(@, UnexpectedMessage("duplicate query operation"))]
    ELSE IF oper.value = "query"
    THEN [st EXCEPT !.query = Some(type_name)]
    ELSE IF oper.value = "mutation" /\ st.mutation # None
    THEN [st EXCEPT !.err = add_error(@, UnexpectedMessage("duplicate mutation operation"))]
    ELSE IF oper.value = "mutation"
    THEN [st EXCEPT !.mutation = Some(type_name)]
    ELSE IF oper.value = "subscription" /\ st.subscription # None
    THEN [st EXCEPT !.err = add_error(@, UnexpectedMessage("duplicate subscription operation"))]
    ELSE IF oper.value = "subscription"
    THEN [st EXCEPT !.subscription = Some(type_name)]
    ELSE [st EXCEPT !.err =
            add_error(add_error(add_error(add_error(@,
                UnexpectedToken(oper)),
                ExpectedMessage("query")),
                ExpectedMessage("mutation")),
                ExpectedMessage("subscription"))]

RECURSIVE schema_loop(_, _, _)
schema_loop(st, operations, k) ==
    IF k > Len(operations) THEN st
    ELSE Once(schema_operation(st, operations[k][1], operations[k][2]),
              LAMBDA s : schema_loop(s, operations, k + 1))

\* The result with the first problem only: the scan's later entries dropped.
SchemaResult_first_error(st, pos, dirs) ==
    IF st.err.errors # <<>>
    THEN [ok |-> FALSE, err |-> [st.err EXCEPT !.errors = <<st.err.errors[1]>>]]
    ELSE [ok |-> TRUE,
          val |-> [position |-> pos, directives |-> dirs, query |-> st.query,
                   mutation |-> st.mutation, subscription |-> st.subscription]]

SchemaResult(st, pos, dirs) ==
    IF st.err.errors # <<>>
    THEN [ok |-> FALSE, err |-> st.err]
    ELSE [ok |-> TRUE,
          val |-> [position |-> pos, directives |-> dirs, query |-> st.query,
                   mutation |-> st.mutation, subscription |-> st.subscription]]

\* The closure given to flat_map: Err(err) when any error was collected.
schema_flat_map(pos, dirs, operations) ==
    Once(schema_loop([query |-> None, mutation |-> None, subscription |-> None,
                      err |-> ErrorsEmpty(pos)], operations, 1),
         LAMBDA st : SchemaResult(st, pos, dirs))

schema(i) ==
    FlatMap(
        AndThen(AndThen(AndThen(Start(i),
            LAMBDA j : Skip(position(j), LAMBDA k : ident("schema", k))),
            directives),
            LAMBDA j : Skip(With(punct("{", j), LAMBDA k : many_operation(k, <<>>)),
                            LAMBDA k : punct("}", k))),
        LAMBDA v : schema_flat_map(v[1], v[2], v[3]))

\* ------------------------------------------------------------ scalars
ScalarType(v) ==
    [position |-> v[1], description |-> None, name |-> v[2], directives |-> v[3]]

scalar_type(i) ==
    Map(AndThen(AndThen(AndThen(Start(i), position),
            LAMBDA j : With(ident("scalar", j), name)),
            directives),
        ScalarType)

scalar_type_extension_flat_map(pos, nm, dirs) ==
    IF dirs = <<>>
    THEN [ok |-> FALSE,
          err |-> add_error(ErrorsEmpty(pos), ExpectedMessage(
                "Scalar type extension should contain at least one directive."))]
    ELSE [ok |-> TRUE, val |-> [position |-> pos, name |-> nm, directives |-> dirs]]

scalar_type_extension(i) ==
    FlatMap(AndThen(AndThen(AndThen(Start(i), position),
                LAMBDA j : With(ident("scalar", j), name)),
                directives),
            LAMBDA v : scalar_type_extension_flat_map(v[1], v[2], v[3]))

\* ------------------------------------------------------------ name lists
\* sep_by1(name(), punct(sep)): a name, then many(sep name); a separator
\* that no name follows is a failure after consumption.
RECURSIVE sep_by1_name_rest(_, _, _)
sep_by1_name_next(sep, r, i, acc) ==
    Once(r, LAMBDA x :
        IF x.ok THEN sep_by1_name_rest(sep, x.pos, Append(acc, x.val))
        ELSE IF x.pos = i THEN Ok(acc, i)
        ELSE x)

sep_by1_name_rest(sep, i, acc) ==
    sep_by1_name_next(sep, With(punct(sep, i), name), i, acc)

sep_by1_name_first(sep, r) ==
    Once(r, LAMBDA x : IF ~x.ok THEN x ELSE sep_by1_name_rest(sep, x.pos, <<x.val>>))

sep_by1_name(sep, i) == sep_by1_name_first(sep, name(i))

\* ident("implements").skip(optional(punct("&"))).with(sep_by1(name(), punct("&")))
implements_clause(i) ==
    With(Skip(ident("implements", i), LAMBDA j : optional(LAMBDA k : punct("&", k), j)),
         LAMBDA j : sep_by1_name("&", j))

implements_interfaces(i) ==
    Map(optional(implements_clause, i), unwrap_or_else_new)

\* The member list with sep_by in place of sep_by1: no name is a list too.
union_members_sep_by(i) ==
    With(optional(LAMBDA k : punct("|", k), i),
         LAMBDA j : Map(optional(LAMBDA k : sep_by1_name("|", k), j), unwrap_or_else_new))

union_members(i) ==
    With(optional(LAMBDA k : punct("|", k), i), LAMBDA j : sep_by1_name("|", j))

\* ------------------------------------------------------------ fields
InputValue(v) ==
    [position |-> v[1], description |-> v[2], name |-> v[3], value_type |-> v[4],
     default_value |-> v[5], directives |-> v[6]]

input_value(i) ==
    Map(AndThen(AndThen(AndThen(AndThen(AndThen(AndThen(Start(i), position),
            LAMBDA j : optional(string, j)),
            name),
            LAMBDA j : With(punct(":", j), parse_type)),
            LAMBDA j : optional(LAMBDA k : With(punct("=", k), default_value), j)),
            directives),
        InputValue)

RECURSIVE many_input_value(_, _)
many_input_value_next(r, i, acc) ==
    Once(r, LAMBDA x :
        IF x.ok THEN many_input_value(x.pos, Append(acc, x.val))
        ELSE IF x.pos = i THEN Ok(acc, i)
        ELSE x)

many_input_value(i, acc) == many_input_value_next(input_value(i), i, acc)

many1_input_value_first(r) ==
    Once(r, LAMBDA x : IF ~x.ok THEN x ELSE many_input_value(x.pos, <<x.val>>))

many1_input_value(i) == many1_input_value_first(input_value(i))

\* The clause with many in place of many1: empty parentheses pass.
arguments_clause_many(i) ==
    Skip(With(punct("(", i), LAMBDA j : many_input_value(j, <<>>)), LAMBDA k : punct(")", k))

\* punct("(").with(many1(parser(input_value))).skip(punct(")"))
arguments_clause(i) ==
    Skip(With(punct("(", i), many1_input_value), LAMBDA k : punct(")", k))

arguments_definition(i) ==
    Map(optional(arguments_clause, i), unwrap_or_else_new)

Field(v) ==
    [position |-> v[1], description |-> v[2], name |-> v[3], arguments |-> v[4],
     field_type |-> v[5], directives |-> v[6]]

\* The field with position() taken after the description.
field_position_late(i) ==
    Map(AndThen(AndThen(AndThen(AndThen(AndThen(AndThen(Start(i),
            LAMBDA j : optional(string, j)),
            position),
            name),
            arguments_definition),
            LAMBDA j : With(punct(":", j), parse_type)),
            directives),
        LAMBDA v : Field(<<v[2], v[1], v[3], v[4], v[5], v[6]>>))

field(i) ==
    Map(AndThen(AndThen(AndThen(AndThen(AndThen(AndThen(Start(i), position),
            LAMBDA j : optional(string, j)),
            name),
            arguments_definition),
            LAMBDA j : With(punct(":", j), parse_type)),
            directives),
        Field)

RECURSIVE many_field(_, _)
many_field_next(r, i, acc) ==
    Once(r, LAMBDA x :
        IF x.ok THEN many_field(x.pos, Append(acc, x.val))
        ELSE IF x.pos = i THEN Ok(acc, i)
        ELSE x)

many_field(i, acc) == many_field_next(field(i), i, acc)

many1_field_first(r) ==
    Once(r, LAMBDA x : IF ~x.ok THEN x ELSE many_field(x.pos, <<x.val>>))

many1_field(i) == many1_field_first(field(i))

\* punct("{").with(many1(parser(field))).skip(punct("}"))
fields_clause(i) ==
    Skip(With(punct("{", i), many1_field), LAMBDA k : punct("}", k))

fields(i) ==
    Map(optional(fields_clause, i), unwrap_or_else_new)

\* ------------------------------------------------------------ objects
ObjectType(v) ==
    [position |-> v[1], description |-> None, name |-> v[2],
     implements_interfaces |-> v[3], directives |-> v[4], fields |-> v[5]]

object_type(i) ==
    Map(AndThen(AndThen(AndThen(AndThen(AndThen(Start(i), position),
            LAMBDA j : With(ident("type", j), name)),
            implements_interfaces),
            directives),
            fields),
        ObjectType)

\* The closure without its check.
object_type_extension_unchecked(pos, nm, ifaces, dirs, fs) ==
    [ok |-> TRUE,
     val |-> [position |-> pos, name |-> nm, implements_interfaces |-> ifaces,
              directives |-> dirs, fields |-> fs]]

object_type_extension_flat_map(pos, nm, ifaces, dirs, fs) ==
    IF ifaces = <<>> /\ dirs = <<>> /\ fs = <<>>
    THEN [ok |-> FALSE,
          err |-> add_error(ErrorsEmpty(pos), ExpectedMessage(
                "Object type extension should contain at least one interface, directive or field."))]
    ELSE [ok |-> TRUE,
          val |-> [position |-> pos, name |-> nm, implements_interfaces |-> ifaces,
                   directives |-> dirs, fields |-> fs]]

object_type_extension(i) ==
    FlatMap(AndThen(AndThen(AndThen(AndThen(AndThen(Start(i), position),
                LAMBDA j : With(ident("type", j), name)),
                implements_interfaces),
                directives),
                fields),
            LAMBDA v : object_type_extension_flat_map(v[1], v[2], v[3], v[4], v[5]))

\* ------------------------------------------------------------ interfaces
InterfaceType(v) ==
    [position |-> v[1], description |-> None, name |-> v[2], directives |-> v[3],
     fields |-> v[4]]

interface_type(i) ==
    Map(AndThen(AndThen(AndThen(AndThen(Start(i), position),
            LAMBDA j : With(ident("interface", j), name)),
            directives),
            fields),
        InterfaceType)

interface_type_extension_flat_map(pos, nm, dirs, fs) ==
    IF dirs = <<>> /\ fs = <<>>
    THEN [ok |-> FALSE,
          err |-> add_error(ErrorsEmpty(pos), ExpectedMessage(
                "Interface type extension should contain at least one directive or field."))]
    ELSE [ok |-> TRUE,
          val |-> [position |-> pos, name |-> nm, directives |-> dirs, fields |-> fs]]

interface_type_extension(i) ==
    FlatMap(AndThen(AndThen(AndThen(AndThen(Start(i), position),
                LAMBDA j : With(ident("interface", j), name)),
                directives),
                fields),
            LAMBDA v : interface_type_extension_flat_map(v[1], v[2], v[3], v[4]))

\* ------------------------------------------------------------ unions
\* optional(punct("=").with(parser(union_members)))
members_clause(i) == With(punct("=", i), union_members)

UnionType(v) ==
    [position |-> v[1], description |-> None, name |-> v[2], directives |-> v[3],
     types |-> unwrap_or_else_new(v[4])]

union_type(i) ==
    Map(AndThen(AndThen(AndThen(AndThen(Start(i), position),
            LAMBDA j : With(ident("union", j), name)),
            directives),
            LAMBDA j : optional(members_clause, j)),
        UnionType)

\* types is the Option the member clause gave: None or Some(list).
union_type_extension_flat_map(pos, nm, dirs, types) ==
    IF dirs = <<>> /\ types = None
    THEN [ok |-> FALSE,
          err |-> add_error(ErrorsEmpty(pos), ExpectedMessage(
                "Union type extension should contain at least one directive or type."))]
    ELSE [ok |-> TRUE,
          val |-> [position |-> pos, name |-> nm, directives |-> dirs,
                   types |-> unwrap_or_else_new(types)]]

union_type_extension(i) ==
    FlatMap(AndThen(AndThen(AndThen(AndThen(Start(i), position),
                LAMBDA j : With(ident("union", j), name)),
                directives),
                LAMBDA j : optional(members_clause, j)),
            LAMBDA v : union_type_extension_flat_map(v[1], v[2], v[3], v[4]))

\* ------------------------------------------------------------ choices
\* p.map(Variant): the node under its variant's tag.
Scalar(n) == [variant |-> "Scalar", node |-> n]
Object(n) == [variant |-> "Object", node |-> n]
Interface(n) == [variant |-> "Interface", node |-> n]
Union(n) == [variant |-> "Union", node |-> n]

type_definition_choice(i) ==
    Or(Or(Or(Map(scalar_type(i), Scalar), i,
        LAMBDA j : Map(object_type(j), Object)), i,
        LAMBDA j : Map(interface_type(j), Interface)), i,
        LAMBDA j : Map(union_type(j), Union))

\* The closure writing into a copy: the node comes back as it was.
set_description_on_copy(descr, def) == def

\* The closure given to map in type_definition: the description is written
\* into the variant's node, whichever variant it is.
set_description(descr, def) ==
    [def EXCEPT !.node = [@ EXCEPT !.description = descr]]

type_definition(i) ==
    Map(AndThen(AndThen(Start(i), LAMBDA j : optional(string, j)), type_definition_choice),
        LAMBDA v : set_description(v[1], v[2]))

type_extension_choice(i) ==
    Or(Or(Or(Map(scalar_type_extension(i), Scalar), i,
        LAMBDA j : Map(object_type_extension(j), Object)), i,
        LAMBDA j : Map(interface_type_extension(j), Interface)), i,
        LAMBDA j : Map(union_type_extension(j), Union))

type_extension(i) == With(ident("extend", i), type_extension_choice)

\* ------------------------------------------------------------ inputs
\* The source texts parse_schema is run on, each described by its parts;
\* Text(s) is the token stream the tokenizer makes of it.
RECURSIVE Concat(_)
Concat(ss) == IF ss = <<>> THEN <<>> ELSE Head(ss) \o Concat(Tail(ss))

SeqsUpTo(S, n) == UNION {[1..m -> S] : m \in 0..n}

RECURSIVE DirsText(_)
DirsText(n) == IF n = 0 THEN <<>> ELSE <<PunctTok("@"), NameTok("d")>> \o DirsText(n - 1)

OpKeys == {"query", "mutation", "subscription", "foo", "bar"}

TypeNameOf(k) == "T" \o ToString(k)

BindingsText(ops) ==
    Concat([k \in 1..Len(ops) |-> <<NameTok(ops[k]), PunctTok(":"), NameTok(TypeNameOf(k))>>])

PreText(pre) ==
    CASE pre = "scalar" -> <<NameTok("scalar"), NameTok("A")>>
      [] pre = "descr" -> <<StringTok("doc")>>
      [] OTHER -> <<>>

SchemaText(s) ==
    PreText(s.pre) \o <<NameTok("schema")>> \o DirsText(s.dirs) \o <<PunctTok("{")>>
        \o BindingsText(s.ops) \o <<PunctTok("}")>>

SchemaSources ==
    {[family |-> "schema", pre |-> p, dirs |-> d, ops |-> o] :
        p \in {"none", "scalar", "descr"}, d \in 0..MaxDirs, o \in SeqsUpTo(OpKeys, MaxOps)}

ImplOptions == {"none", "one", "amp_one", "two", "bare", "trailing"}

ImplText(o) ==
    CASE o = "one" -> <<NameTok("implements"), NameTok("I")>>
      [] o = "amp_one" -> <<NameTok("implements"), PunctTok("&"), NameTok("I")>>
      [] o = "two" -> <<NameTok("implements"), NameTok("I"), PunctTok("&"), NameTok("J")>>
      [] o = "bare" -> <<NameTok("implements")>>
      [] o = "trailing" -> <<NameTok("implements"), NameTok("I"), PunctTok("&")>>
      [] OTHER -> <<>>

MemberOptions == {"none", "one", "bar_one", "two", "bare", "trailing"}

MembersText(o) ==
    CASE o = "one" -> <<PunctTok("="), NameTok("M")>>
      [] o = "bar_one" -> <<PunctTok("="), PunctTok("|"), NameTok("M")>>
      [] o = "two" -> <<PunctTok("="), NameTok("M"), PunctTok("|"), NameTok("N")>>
      [] o = "bare" -> <<PunctTok("=")>>
      [] o = "trailing" -> <<PunctTok("="), NameTok("M"), PunctTok("|")>>
      [] OTHER -> <<>>

FieldOptions == {"plain", "descr", "args0", "args1", "args2", "unclosed"}

ArgText == <<NameTok("a"), PunctTok(":"), NameTok("Int")>>

FieldText(o) ==
    CASE o = "descr" -> <<StringTok("doc"), NameTok("f"), PunctTok(":"), NameTok("Int")>>
      [] o = "args0" -> <<NameTok("f"), PunctTok("("), PunctTok(")"), PunctTok(":"), NameTok("Int")>>
      [] o = "args1" -> <<NameTok("f"), PunctTok("(")>> \o ArgText
                            \o <<PunctTok(")"), PunctTok(":"), NameTok("Int")>>
      [] o = "args2" -> <<NameTok("f"), PunctTok("(")>> \o ArgText
                            \o <<PunctTok("="), NameTok("X"), PunctTok("@"), NameTok("d"),
                                 StringTok("doc"), NameTok("b"), PunctTok(":"), PunctTok("["),
                                 NameTok("Int"), PunctTok("]"), PunctTok("!"),
                                 PunctTok(")"), PunctTok(":"), NameTok("Int"), PunctTok("!")>>
      [] o = "unclosed" -> <<NameTok("f"), PunctTok("(")>> \o ArgText
                            \o <<PunctTok(":"), NameTok("Int")>>
      [] OTHER -> <<NameTok("f"), PunctTok(":"), NameTok("Int")>>

NoFields == [braces |-> FALSE, list |-> <<>>]

FieldsOptions ==
    {NoFields} \cup {[braces |-> TRUE, list |-> l] : l \in SeqsUpTo(FieldOptions, MaxFields)}

FieldsText(f) ==
    IF ~f.braces THEN <<>>
    ELSE <<PunctTok("{")>> \o Concat([k \in 1..Len(f.list) |-> FieldText(f.list[k])])
            \o <<PunctTok("}")>>

TypeText(s) ==
    (IF s.descr THEN <<StringTok("doc")>> ELSE <<>>)
        \o (IF s.extend THEN <<NameTok("extend")>> ELSE <<>>)
        \o <<NameTok(s.kw), NameTok("Foo")>>
        \o ImplText(s.impl) \o DirsText(s.dirs) \o FieldsText(s.fields)
        \o MembersText(s.members)

TypeSource(ds, e, k, i, d, f, m) ==
    [family |-> "type", descr |-> ds, extend |-> e, kw |-> k, impl |-> i, dirs |-> d,
     fields |-> f, members |-> m]

\* Only the parts the kind of declaration has are varied.
ScalarSources ==
    {TypeSource(ds, e, "scalar", "none", d, NoFields, "none") :
        ds \in BOOLEAN, e \in BOOLEAN, d \in 0..MaxDirs}

ObjectSources ==
    {TypeSource(ds, e, "type", i, d, f, "none") :
        ds \in BOOLEAN, e \in BOOLEAN, i \in ImplOptions, d \in 0..MaxDirs,
        f \in FieldsOptions}

InterfaceSources ==
    {TypeSource(ds, e, "interface", "none", d, f, "none") :
        ds \in BOOLEAN, e \in BOOLEAN, d \in 0..MaxDirs, f \in FieldsOptions}

UnionSources ==
    {TypeSource(ds, e, "union", "none", d, NoFields, m) :
        ds \in BOOLEAN, e \in BOOLEAN, d \in 0..MaxDirs, m \in MemberOptions}

SimpleDefs == {"schema", "scalar", "ext_scalar", "descr_union", "ext_type_empty", "junk"}

SimpleText(o) ==
    CASE o = "schema" -> <<NameTok("schema"), PunctTok("{"), PunctTok("}")>>
      [] o = "scalar" -> <<NameTok("scalar"), NameTok("A")>>
      [] o = "ext_scalar" -> <<NameTok("extend"), NameTok("scalar"), NameTok("A"),
                               PunctTok("@"), NameTok("d")>>
      [] o = "descr_union" -> <<StringTok("doc"), NameTok("union"), NameTok("U")>>
      [] o = "ext_type_empty" -> <<NameTok("extend"), NameTok("type"), NameTok("Foo")>>
      [] OTHER -> <<PunctTok("}")>>

DocumentText(s) == Concat([k \in 1..Len(s.defs) |-> SimpleText(s.defs[k])])

DocumentSources ==
    {[family |-> "document", defs |-> l] : l \in SeqsUpTo(SimpleDefs, MaxDefs)}

Text(s) ==
    CASE s.family = "schema" -> SchemaText(s)
      [] s.family = "type" -> TypeText(s)
      [] OTHER -> DocumentText(s)

\* ------------------------------------------------------------ parse_schema
Definition(tag, v) == [definition |-> tag, value |-> v]

Done == pc \in {"Ok", "Err"}

\* Before parse_schema is called: no text yet.
NoSource == [family |-> "none"]

Init ==
    /\ src = NoSource
    /\ tokens = <<>>
    /\ cursor = 1
    /\ pc = "start"
    /\ definitions = <<>>
    /\ starts = <<>>
    /\ result = None
    /\ error = None

\* parse_schema(s): the token stream of the text, the cursor on its first
\* token, and many1(definition) about to try its first alternative.
NewTokenStream ==
    /\ pc = "start"
    /\ \/ src' \in SchemaSources
       \/ src' \in ScalarSources
       \/ src' \in ObjectSources
       \/ src' \in InterfaceSources
       \/ src' \in UnionSources
       \/ src' \in DocumentSources
    /\ tokens' = Text(src')
    /\ pc' = "schema"
    /\ UNCHANGED <<cursor, definitions, starts, result, error>>

\* The alternative that, failing after it consumed, lets the next one try
\* the same tokens again.
Alternative_retry(r, tag, other) ==
    IF r.ok
    THEN /\ definitions' = Append(definitions, Definition(tag, r.val))
         /\ starts' = Append(starts, cursor)
         /\ cursor' = r.pos
         /\ pc' = "schema"
         /\ UNCHANGED <<result, error>>
    ELSE IF other # "none"
    THEN /\ pc' = other
         /\ UNCHANGED <<cursor, definitions, starts, result, error>>
    ELSE IF definitions = <<>> \/ r.pos # cursor
    THEN /\ pc' = "Err"
         /\ error' = Some(r.err)
         /\ UNCHANGED <<cursor, definitions, starts, result>>
    ELSE /\ pc' = "eof"
         /\ UNCHANGED <<cursor, definitions, starts, result, error>>

\* One alternative of `definition` run at the cursor: its definition is
\* pushed and many1 goes round again; a failure that consumed ends the parse
\* with that error; a failure that consumed nothing hands over to `other`.
Alternative(r, tag, other) ==
    IF r.ok
    THEN /\ definitions' = Append(definitions, Definition(tag, r.val))
         /\ starts' = Append(starts, cursor)
         /\ cursor' = r.pos
         /\ pc' = "schema"
         /\ UNCHANGED <<result, error>>
    ELSE IF r.pos # cursor
    THEN /\ cursor' = r.pos
         /\ pc' = "Err"
         /\ error' = Some(r.err)
         /\ UNCHANGED <<definitions, starts, result>>
    ELSE IF other # "none"
    THEN /\ pc' = other
         /\ UNCHANGED <<cursor, definitions, starts, result, error>>
    \* every alternative failed: many1 stops, with an error when it parsed nothing
    ELSE IF definitions = <<>>
    THEN /\ pc' = "Err"
         /\ error' = Some(r.err)
         /\ UNCHANGED <<cursor, definitions, starts, result>>
    ELSE /\ pc' = "eof"
         /\ UNCHANGED <<cursor, definitions, starts, result, error>>

TrySchema ==
    /\ pc = "schema"
    /\ \E r \in {schema(cursor)} : Alternative(r, "SchemaDefinition", "type_definition")
    /\ UNCHANGED <<src, tokens>>

TryTypeDefinition ==
    /\ pc = "type_definition"
    /\ \E r \in {type_definition(cursor)} : Alternative(r, "TypeDefinition", "type_extension")
    /\ UNCHANGED <<src, tokens>>

\* many1 that starts over when no alternative matches, instead of stopping.
TryTypeExtension_again ==
    /\ pc = "type_extension"
    /\ \E r \in {type_extension(cursor)} : Alternative(r, "TypeExtension", "schema")
    /\ UNCHANGED <<src, tokens>>

TryTypeExtension ==
    /\ pc = "type_extension"
    /\ \E r \in {type_extension(cursor)} : Alternative(r, "TypeExtension", "none")
    /\ UNCHANGED <<src, tokens>>

\* The end of the parse without eof(): tokens left over are ignored.
Eof_unchecked ==
    /\ pc = "eof"
    /\ pc' = "Ok"
    /\ result' = Some([definitions |-> definitions])
    /\ UNCHANGED <<src, tokens, cursor, definitions, starts, error>>

\* .map(|d| Document { definitions: d }).skip(eof())
Eof ==
    /\ pc = "eof"
    /\ IF At(cursor) = EndOfInput
       THEN /\ pc' = "Ok"
            /\ result' = Some([definitions |-> definitions])
            /\ UNCHANGED error
       ELSE /\ pc' = "Err"
            /\ error' = Some(Mismatch(cursor).err)
            /\ UNCHANGED result
    /\ UNCHANGED <<src, tokens, cursor, definitions, starts>>

Next == NewTokenStream \/ TrySchema \/ TryTypeDefinition \/ TryTypeExtension \/ Eof

Spec == Init /\ [][Next]_vars

LiveSpec == Spec /\ WF_vars(Next)

\* ============================================================ claims
\* What the source text says, read off its description (never off the parse).
Keywords == {"query", "mutation", "subscription"}

Occurrences(ops, key) == Cardinality({k \in 1..Len(ops) : ops[k] = key})

FirstIndex(ops, key) == CHOOSE k \in 1..Len(ops) : ops[k] = key /\ \A j \in 1..(k - 1) : ops[j] # key

\* The type name the first binding of `key` gives, None when there is none.
FirstBound(ops, key) ==
    IF Occurrences(ops, key) = 0 THEN None ELSE Some(TypeNameOf(FirstIndex(ops, key)))

OpsGood(ops) ==
    /\ \A k \in 1..Len(ops) : ops[k] \in Keywords
    /\ \A key \in Keywords : Occurrences(ops, key) <= 1

DirsAt(p, n) == [k \in 1..n |-> [position |-> p + 2 * (k - 1), name |-> "d", arguments |-> <<>>]]

\* A schema declaration that the type family's description prefix does not precede.
SchemaCase == src.family = "schema" /\ src.pre # "descr"

SchemaStart == Len(PreText(src.pre)) + 1

ExpectedSchema ==
    [position |-> SchemaStart,
     directives |-> DirsAt(SchemaStart + 1, src.dirs),
     query |-> FirstBound(src.ops, "query"),
     mutation |-> FirstBound(src.ops, "mutation"),
     subscription |-> FirstBound(src.ops, "subscription")]

SchemaRun == schema(SchemaStart)

\* C1: a schema declaration whose bindings use only query, mutation and
\* subscription, each at most once (none included), makes the schema rule
\* succeed with exactly the bound type names (None for an absent keyword),
\* the parsed directives and the position of the `schema` token, and that
\* SchemaDefinition is the one parse_schema returns.
C1_SchemaBindings ==
    (SchemaCase /\ OpsGood(src.ops)) =>
        /\ SchemaRun.ok
        /\ SchemaRun.val = ExpectedSchema
        /\ SchemaRun.pos = Len(tokens) + 1
        /\ Done => /\ pc = "Ok"
                   /\ result[1].definitions[Len(definitions)]
                        = Definition("SchemaDefinition", ExpectedSchema)

C1_Witness ==
    /\ pc = "Ok"
    /\ src.family = "schema" /\ src.pre = "none" /\ src.dirs = 0 /\ src.ops = <<"query">>
    /\ result[1].definitions =
            <<Definition("SchemaDefinition",
                [position |-> 1, directives |-> <<>>, query |-> Some("T1"),
                 mutation |-> None, subscription |-> None])>>

DuplicateEntry(key) == UnexpectedMessage("duplicate " \o key \o " operation")

Unknowns(ops) == {ops[k] : k \in 1..Len(ops)} \ Keywords

\* The entries the operation list calls for, equal entries counted once.
ExpectedEntries(ops) ==
    {DuplicateEntry(key) : key \in {q \in Keywords : Occurrences(ops, q) >= 2}}
        \cup {UnexpectedToken(NameTok(u)) : u \in Unknowns(ops)}
        \cup (IF Unknowns(ops) = {} THEN {}
              ELSE {ExpectedMessage(key) : key \in Keywords})

EntrySet(errs) == {errs[k] : k \in 1..Len(errs)}

EntryCount(errs, x) == Cardinality({k \in 1..Len(errs) : errs[k] = x})

\* The operations the rule hands its closure, as the text gives them.
OperationsOf(ops) == [k \in 1..Len(ops) |-> <<NameTok(ops[k]), TypeNameOf(k)>>]

Accumulated ==
    schema_loop([query |-> None, mutation |-> None, subscription |-> None,
                 err |-> ErrorsEmpty(SchemaStart)], OperationsOf(src.ops), 1)

\* C2 (as amended): the schema rule fails iff some binding repeats a bound
\* keyword or uses an unknown identifier; it fails after the whole list was
\* scanned, with the entries of every problem of the list, equal entries
\* held once: one duplicate entry per kind bound more than once, one
\* unexpected-token entry per distinct unknown identifier, and the three
\* expected alternatives once when any identifier is unknown.  The first
\* binding of a kind is the one kept, and no SchemaDefinition is returned.
C2_AggregatedErrors ==
    SchemaCase =>
        /\ SchemaRun.ok <=> OpsGood(src.ops)
        /\ Accumulated.query = FirstBound(src.ops, "query")
        /\ Accumulated.mutation = FirstBound(src.ops, "mutation")
        /\ Accumulated.subscription = FirstBound(src.ops, "subscription")
        /\ ~OpsGood(src.ops) =>
            /\ SchemaRun.pos = Len(tokens) + 1
            /\ SchemaRun.err.position = SchemaStart
            /\ EntrySet(SchemaRun.err.errors) = ExpectedEntries(src.ops)
            /\ \A x \in ExpectedEntries(src.ops) : EntryCount(SchemaRun.err.errors, x) = 1
            /\ \A k \in 1..Len(definitions) : definitions[k].definition # "SchemaDefinition"
            /\ Done => (pc = "Err" /\ result = None /\ error = Some(SchemaRun.err))

C2_Witness ==
    /\ pc = "Err"
    /\ SchemaCase
    /\ src.ops = <<"query", "foo", "query">>
    /\ error[1].errors =
            <<UnexpectedToken(NameTok("foo")), ExpectedMessage("query"),
              ExpectedMessage("mutation"), ExpectedMessage("subscription"),
              DuplicateEntry("query")>>

\* C2 as stated: one duplicate entry for every occurrence of a keyword
\* after its first.
C2_OnePerOccurrence ==
    (SchemaCase /\ pc = "Err" /\ ~OpsGood(src.ops)) =>
        \A key \in Keywords :
            Occurrences(src.ops, key) >= 1 =>
                EntryCount(error[1].errors, DuplicateEntry(key))
                    = Occurrences(src.ops, key) - 1

\* ------------------------------------------------------------ extensions
TypeCase == src.family = "type"

ExtensionCase == TypeCase /\ src.extend /\ ~src.descr

GoodFieldOptions == {"plain", "descr", "args1", "args2"}

FieldsGood(f) ==
    ~f.braces \/ (f.list # <<>> /\ \A k \in 1..Len(f.list) : f.list[k] \in GoodFieldOptions)

\* The declaration's body follows the grammar of its kind.
BodyGood ==
    /\ src.impl \in {"none", "one", "amp_one", "two"}
    /\ src.members \in {"none", "one", "bar_one", "two"}
    /\ FieldsGood(src.fields)

\* What the text adds to the type, by kind.
AddsSomething ==
    CASE src.kw = "scalar" -> src.dirs > 0
      [] src.kw = "type" -> src.impl # "none" \/ src.dirs > 0 \/ src.fields.braces
      [] src.kw = "interface" -> src.dirs > 0 \/ src.fields.braces
      [] OTHER -> src.dirs > 0 \/ src.members # "none"

VacuousMessage ==
    CASE src.kw = "scalar" -> "Scalar type extension should contain at least one directive."
      [] src.kw = "type" ->
            "Object type extension should contain at least one interface, directive or field."
      [] src.kw = "interface" ->
            "Interface type extension should contain at least one directive or field."
      [] OTHER -> "Union type extension should contain at least one directive or type."

ExtensionRun == type_extension(1)

AllEmpty(d) ==
    CASE d.value.variant = "Scalar" -> d.value.node.directives = <<>>
      [] d.value.variant = "Object" ->
            /\ d.value.node.implements_interfaces = <<>>
            /\ d.value.node.directives = <<>>
            /\ d.value.node.fields = <<>>
      [] d.value.variant = "Interface" ->
            d.value.node.directives = <<>> /\ d.value.node.fields = <<>>
      [] OTHER -> FALSE

\* C3: a scalar, object or interface extension that parses structurally
\* succeeds only if it adds something (a directive; an interface, directive
\* or field; a directive or field), and fails with the rule's message
\* otherwise; `extend type Foo { f: Int }` succeeds with exactly one field;
\* no returned Document holds such an extension with all its lists empty.
C3_ExtensionAddsSomething ==
    /\ (ExtensionCase /\ src.kw # "union") =>
        /\ ExtensionRun.ok <=> (BodyGood /\ AddsSomething)
        /\ (BodyGood /\ ~AddsSomething) =>
            /\ ExtensionRun.err.errors = <<ExpectedMessage(VacuousMessage)>>
            /\ ExtensionRun.err.position = 2
            /\ Done => (pc = "Err" /\ result = None /\ error = Some(ExtensionRun.err))
        /\ (Done /\ BodyGood /\ AddsSomething) =>
            /\ pc = "Ok"
            /\ result[1].definitions = <<Definition("TypeExtension", ExtensionRun.val)>>
            /\ src.kw # "scalar" =>
                    Len(ExtensionRun.val.node.fields) = Len(src.fields.list)
    /\ \A k \in 1..Len(definitions) :
            definitions[k].definition = "TypeExtension" => ~AllEmpty(definitions[k])

C3_Witness ==
    /\ pc = "Ok"
    /\ ExtensionCase /\ src.kw = "type" /\ src.impl = "none" /\ src.dirs = 0
    /\ src.fields = [braces |-> TRUE, list |-> <<"plain">>]
    /\ Len(result[1].definitions[1].value.node.fields) = 1

\* C3's failing side: `extend type Foo` was run and rejected.
C3_WitnessVacuous ==
    /\ pc = "Err"
    /\ ExtensionCase /\ src.kw = "type" /\ BodyGood /\ ~AddsSomething

UnionExtensionCase == ExtensionCase /\ src.kw = "union"

\* C4 (as amended): a union extension fails unless it has a directive or an
\* explicit `=` member clause, and that check looks at the presence of the
\* clause; but a clause that is present holds at least one member name, so
\* `extend union U =` fails in the member list, before the check is reached,
\* and every accepted union extension with a clause has a non-empty list.
C4_UnionExtension ==
    UnionExtensionCase =>
        /\ ExtensionRun.ok <=> (BodyGood /\ AddsSomething)
        /\ (BodyGood /\ ~AddsSomething) =>
                ExtensionRun.err.errors = <<ExpectedMessage(VacuousMessage)>>
        /\ union_type_extension_flat_map(2, "Foo", <<>>, Some(<<>>)).ok
        /\ ~union_type_extension_flat_map(2, "Foo", <<>>, None).ok
        /\ src.members = "bare" =>
            /\ ~ExtensionRun.ok
            /\ ExtensionRun.pos = Len(tokens) + 1
            /\ ExtensionRun.err.errors = <<UnexpectedToken(EndOfInput)>>
            /\ Done => (pc = "Err" /\ result = None)
        /\ (ExtensionRun.ok /\ src.members # "none") => ExtensionRun.val.node.types # <<>>
        /\ (Done /\ ExtensionRun.ok) =>
                result[1].definitions = <<Definition("TypeExtension", ExtensionRun.val)>>

C4_Witness ==
    /\ pc = "Err"
    /\ UnionExtensionCase /\ src.members = "bare" /\ src.dirs = 0
    /\ error[1].errors = <<UnexpectedToken(EndOfInput)>>

\* C4 as stated: `extend union U =` is accepted with an empty member list.
C4_EmptyClauseAccepted ==
    (Done /\ UnionExtensionCase /\ src.members = "bare") =>
        /\ pc = "Ok"
        /\ result[1].definitions[1].value.node.types = <<>>

\* ------------------------------------------------------------ fields
\* A type or interface declaration with a field block, run by its rule.
FieldsCase ==
    /\ TypeCase /\ ~(src.descr /\ src.extend)
    /\ src.kw \in {"type", "interface"}
    /\ src.fields.braces

DeclRun == IF src.extend THEN type_extension(1) ELSE type_definition(1)

DeclTag == IF src.extend THEN "TypeExtension" ELSE "TypeDefinition"

\* The arguments the text of a field option writes between its parentheses.
ArgCount(o) == CASE o = "args1" -> 1 [] o = "args2" -> 2 [] OTHER -> 0

HasParens(o) == o \in {"args0", "args1", "args2", "unclosed"}

\* The index of the first token of the k-th field of the block.
FieldStart(k) ==
    Len(tokens) - Len(FieldsText(src.fields)) + 2
        + Len(Concat([j \in 1..(k - 1) |-> FieldText(src.fields.list[j])]))

FirstBad == CHOOSE k \in 1..Len(src.fields.list) :
                /\ src.fields.list[k] \notin GoodFieldOptions
                /\ \A j \in 1..(k - 1) : src.fields.list[j] \in GoodFieldOptions

\* C5: a field without parentheses has the empty argument list; parentheses
\* must hold at least one input value, and empty parentheses make the whole
\* parse fail at the closing parenthesis.  A field of a returned Document has
\* no arguments iff its text had no parentheses.
C5_FieldArguments ==
    FieldsCase => \A run \in {DeclRun} :
        /\ (src.impl \in {"none", "one", "amp_one", "two"}
                /\ ~FieldsGood(src.fields) /\ src.fields.list # <<>>
                /\ src.fields.list[FirstBad] = "args0") =>
            /\ ~run.ok
            /\ run.pos = FieldStart(FirstBad) + 2
            /\ run.err.errors = <<UnexpectedToken(PunctTok(")"))>>
            /\ Done => (pc = "Err" /\ result = None /\ error = Some(run.err))
        /\ (BodyGood /\ (src.extend => AddsSomething)) =>
            /\ run.ok
            /\ Len(run.val.node.fields) = Len(src.fields.list)
            /\ Done => (pc = "Ok"
                        /\ result[1].definitions = <<Definition(DeclTag, run.val)>>)
        /\ run.ok =>
            \A k \in 1..Len(run.val.node.fields) :
                /\ Len(run.val.node.fields[k].arguments) = ArgCount(src.fields.list[k])
                /\ run.val.node.fields[k].arguments = <<>>
                        <=> ~HasParens(src.fields.list[k])
                /\ run.val.node.fields[k].position = FieldStart(k)

C5_Witness ==
    /\ pc = "Err"
    /\ FieldsCase /\ src.kw = "type" /\ ~src.extend /\ ~src.descr
    /\ src.impl = "none" /\ src.dirs = 0
    /\ src.fields.list = <<"args0">>
    /\ error[1].errors = <<UnexpectedToken(PunctTok(")"))>>

\* ------------------------------------------------------------ documents
GoodSimpleDefs == {"schema", "scalar", "ext_scalar", "descr_union"}

\* The whole text is one or more definitions of the grammar.
WellFormed ==
    CASE src.family = "schema" -> src.pre # "descr" /\ OpsGood(src.ops)
      [] src.family = "type" ->
            /\ ~(src.descr /\ src.extend)
            /\ BodyGood
            /\ src.extend => AddsSomething
      [] OTHER ->
            /\ src.defs # <<>>
            /\ \A k \in 1..Len(src.defs) : src.defs[k] \in GoodSimpleDefs

SimpleKind(o) ==
    CASE o = "schema" -> "SchemaDefinition"
      [] o = "ext_scalar" -> "TypeExtension"
      [] OTHER -> "TypeDefinition"

\* The kinds of the text's top-level declarations, in source order.
ExpectedKinds ==
    CASE src.family = "schema" ->
            IF src.pre = "scalar" THEN <<"TypeDefinition", "SchemaDefinition">>
            ELSE <<"SchemaDefinition">>
      [] src.family = "type" -> <<DeclTag>>
      [] OTHER -> [k \in 1..Len(src.defs) |-> SimpleKind(src.defs[k])]

\* C6: parse_schema returns Ok(Document) iff the whole input is one or more
\* definitions followed by end of input, and then the Document holds one
\* entry per top-level declaration, in source order; in every other case
\* (empty input, tokens left over, a failing definition after good ones) it
\* returns the error and no Document, partial or otherwise.
C6_AllOrNothing ==
    /\ ~Done => (result = None /\ error = None)
    /\ Done =>
        /\ src # NoSource
        /\ pc = "Ok" <=> WellFormed
        /\ pc = "Ok" =>
            /\ error = None
            /\ result = Some([definitions |-> definitions])
            /\ cursor = Len(tokens) + 1
            /\ [k \in 1..Len(definitions) |-> definitions[k].definition] = ExpectedKinds
        /\ pc = "Err" => (result = None /\ error # None /\ error[1].errors # <<>>)

\* A definition failed after two good ones: no Document.
C6_Witness ==
    /\ pc = "Err"
    /\ src.family = "document"
    /\ src.defs = <<"schema", "descr_union", "ext_type_empty">>
    /\ Len(definitions) = 2
    /\ result = None

\* ------------------------------------------------------------ positions
KeywordOf(variant) ==
    CASE variant = "Scalar" -> "scalar"
      [] variant = "Object" -> "type"
      [] variant = "Interface" -> "interface"
      [] OTHER -> "union"

NodePosition(d) ==
    IF d.definition = "SchemaDefinition" THEN d.value.position ELSE d.value.node.position

\* A field or an input value starts at the token at p: its description
\* string when it has one, its name otherwise.
StartsAt(n, p) ==
    /\ n.position = p
    /\ At(p - 1).kind # "StringValue"
    /\ IF n.description # None
       THEN At(p) = StringTok(n.description[1]) /\ At(p + 1) = NameTok(n.name)
       ELSE At(p) = NameTok(n.name)

FieldsOf(d) ==
    IF d.definition # "SchemaDefinition" /\ d.value.variant \in {"Object", "Interface"}
    THEN d.value.node.fields
    ELSE <<>>

\* C7 (as amended): a node's position is the position of the first token of
\* the rule that builds the node.  For a SchemaDefinition that is `schema`,
\* for a Field or InputValue its first token (the description string when
\* there is one); for a type definition it is the keyword, which a
\* description string precedes, and for a type extension it is the kind
\* keyword that follows `extend`.
C7_PositionOfBuildingRule ==
    \A k \in 1..Len(definitions) :
        LET d == definitions[k]
            s == starts[k]
        IN  /\ d.definition = "SchemaDefinition" =>
                (NodePosition(d) = s /\ At(s) = NameTok("schema"))
            /\ d.definition = "TypeDefinition" =>
                /\ NodePosition(d) = IF At(s).kind = "StringValue" THEN s + 1 ELSE s
                /\ At(NodePosition(d)) = NameTok(KeywordOf(d.value.variant))
            /\ d.definition = "TypeExtension" =>
                /\ NodePosition(d) = s + 1
                /\ At(s) = NameTok("extend")
                /\ At(NodePosition(d)) = NameTok(KeywordOf(d.value.variant))
            /\ \A f \in 1..Len(FieldsOf(d)) :
                /\ StartsAt(FieldsOf(d)[f], FieldsOf(d)[f].position)
                /\ \A a \in 1..Len(FieldsOf(d)[f].arguments) :
                        StartsAt(FieldsOf(d)[f].arguments[a],
                                 FieldsOf(d)[f].arguments[a].position)

\* A described type definition with a described field and a described
\* argument was parsed.
C7_Witness ==
    /\ pc = "Ok"
    /\ TypeCase /\ src.descr /\ ~src.extend /\ src.kw = "type"
    /\ src.fields.list = <<"descr", "args2">>
    /\ definitions[1].value.node.position = 2
    /\ definitions[1].value.node.fields[1].position = Len(tokens) - Len(FieldsText(src.fields)) + 2
    /\ definitions[1].value.node.fields[2].arguments[2].description = Some("doc")

\* C7 as stated: every node's position is the position of the first token
\* of its construct, the description string or `extend` included.
C7_PositionIsFirstToken ==
    \A k \in 1..Len(definitions) : NodePosition(definitions[k]) = starts[k]

\* ------------------------------------------------------------ descriptions
HasDescription(s) == At(s).kind = "StringValue"

VariantRun(s) == type_definition_choice(IF HasDescription(s) THEN s + 1 ELSE s)

\* C8: a type definition's description is Some(s) exactly when a string s
\* precedes the keyword and None otherwise; but for the description the
\* node is what the variant rule produced (whose description is None); and
\* when the variant rule fails the type-definition rule produces no node.
C8_DescriptionOnly ==
    /\ \A k \in 1..Len(definitions) :
            definitions[k].definition = "TypeDefinition" =>
                LET d == definitions[k].value
                    s == starts[k]
                IN  /\ VariantRun(s).ok
                    /\ d.node.description =
                            IF HasDescription(s) THEN Some(At(s).value) ELSE None
                    /\ VariantRun(s).val.node.description = None
                    /\ [d EXCEPT !.node.description = None] = VariantRun(s).val
    /\ (pc = "type_definition" /\ ~VariantRun(cursor).ok) => ~type_definition(cursor).ok

C8_Witness ==
    /\ pc = "Ok"
    /\ TypeCase /\ src.descr /\ ~src.extend /\ src.kw = "union" /\ src.members = "two"
    /\ definitions[1].value.node.description = Some("doc")
    /\ definitions[1].value.node.types = <<"M", "N">>

\* ------------------------------------------------------------ termination
Rank ==
    CASE pc = "schema" -> 4
      [] pc = "type_definition" -> 3
      [] pc = "type_extension" -> 2
      [] pc = "eof" -> 1
      [] OTHER -> 0

\* What is left to do: the tokens ahead, then the alternatives still to try.
Measure == 5 * (Len(tokens) + 1 - cursor) + Rank

\* C9: on every token stream parse_schema reaches Ok(Document) or
\* Err(error): each step either consumes a token or moves on to the next
\* alternative or stops, so the steps are bounded by the tokens left.
C9_Terminates ==
    /\ <>Done
    /\ [][pc # "start" => (Measure' < Measure /\ (pc' = "schema" => cursor' > cursor))]_vars
    /\ [](Done => ((pc = "Ok" /\ result # None) \/ (pc = "Err" /\ error # None)))

\* A malformed stream was parsed to the end: Err.
C9_Witness ==
    /\ pc = "Err"
    /\ src.family = "document" /\ src.defs = <<"scalar", "junk", "scalar">>
    /\ cursor = 3

\* ------------------------------------------------------------ commitment
CurrentRun ==
    CASE pc = "schema" -> schema(cursor)
      [] pc = "type_definition" -> type_definition(cursor)
      [] OTHER -> type_extension(cursor)

Trying == pc \in {"schema", "type_definition", "type_extension"}

Committed == Trying /\ ~CurrentRun.ok /\ CurrentRun.pos # cursor

DescriptionThen(i, words) ==
    At(i).kind = "StringValue" /\ At(i + 1).kind = "Name" /\ At(i + 1).value \in words

\* C10: the cursor never moves back; an alternative that consumed a token
\* and then failed ends the parse with its error, and a sibling alternative
\* is tried only after a failure that consumed nothing, at the same cursor.
\* So a description string followed by `schema` or `extend` is a failure,
\* and every type extension parsed starts at its `extend`.
C10_Committed ==
    [][ /\ cursor' >= cursor
        /\ Committed =>
            /\ pc' = "Err" /\ error' = Some(CurrentRun.err)
            /\ definitions' = definitions
        /\ pc' \in {"type_definition", "type_extension"} =>
            /\ Trying /\ ~CurrentRun.ok /\ CurrentRun.pos = cursor
            /\ cursor' = cursor
            /\ pc' = IF pc = "schema" THEN "type_definition" ELSE "type_extension"
        /\ (pc = "type_definition" /\ DescriptionThen(cursor, {"schema", "extend"})) =>
            (pc' = "Err" /\ cursor' = cursor + 1)
        /\ \A k \in 1..Len(definitions') :
            definitions'[k].definition = "TypeExtension" =>
                At(starts'[k]) = NameTok("extend")
      ]_vars

\* A description, then `extend`: the type-definition rule took the string
\* and failed at `extend`.
C10_Witness ==
    /\ pc = "Err"
    /\ TypeCase /\ src.descr /\ src.extend /\ src.kw = "scalar" /\ src.dirs = 1
    /\ cursor = 2
    /\ definitions = <<>>

====
